---- MODULE Spec2Model ----
(***************************************************************************)
(* WebRTCam: the media pipeline (modules/media_pipeline.py), the part of   *)
(* the WebRTC server that attaches and detaches tracks (modules/webrtc.py) *)
(* and the composition of the application (app.py).                        *)
(*                                                                         *)
(* The pipeline runs on one asyncio event loop.  Code between two awaits   *)
(* that suspend is one atomic step, so every action below is one such      *)
(* block: a synchronous call, one run of a task from a suspension point to *)
(* the next one, or one segment of stop() between two awaits.              *)
(*                                                                         *)
(* A run is bounded by its profile: the configuration (AUDIO_ENABLED,      *)
(* PIPELINE_BUFFER_SIZE) together with what the environment does at most   *)
(* (frames delivered, tracks offered, tasks alive at a time).  Init draws  *)
(* the profile from Profiles; the state space is the union of the runs of  *)
(* all profiles.                                                           *)
(***************************************************************************)
EXTENDS Integers, Sequences, FiniteSets, TLC

----------------------------------------------------------------------------
(* Bounds.                                                                 *)

\* config.PIPELINE_BUFFER_SIZE in the profiles other than the video burst.
BufferSize == 1

\* config.PIPELINE_BUFFER_SIZE and the frames delivered in the video burst.
BurstBufferSize == 2
MaxVideoFrames == 4

\* The samples delivered in the audio burst: one more than the audio queue
\* holds with PIPELINE_BUFFER_SIZE = BufferSize.
MaxAudioFrames == 11

\* The frames of each kind delivered in the other profiles.
MaxFrames == 1

\* The tracks of one kind the transport offers in the profiles of tracks.
MaxTracks == 2

\* The conversion tasks of one kind alive at a time in the profile of tasks.
MaxTasks == 2

\* time.time() returns a value of 1..MaxTime.
MaxTime == 2

\* encode() returns at most MaxPackets packets for one sample.
MaxPackets == 1

\* The candidate nodes of a device class a discovery scans: the code scans
\* the suffixes 0..9, the model the suffixes 0..MaxVideoNodes-1 of the video
\* nodes and 0..MaxAudioNodes-1 of the pcm nodes.
MaxVideoNodes == 2
MaxAudioNodes == 1

None == "None"

VideoTrackNames == << "v1", "v2", "v3" >>
AudioTrackNames == << "a1", "a2", "a3" >>
Times == 1..MaxTime

Profile(audio, size, vtracks, atracks, vframes, aframes, tasks) ==
    [AUDIO_ENABLED |-> audio, PIPELINE_BUFFER_SIZE |-> size,
     video_tracks |-> vtracks, audio_tracks |-> atracks,
     video_frames |-> vframes, audio_frames |-> aframes, tasks |-> tasks]

Profiles ==
    { \* a burst of video frames, audio disabled
      Profile(FALSE, BurstBufferSize, 1, 0, MaxVideoFrames, 0, 1),
      \* a burst of audio samples
      Profile(TRUE, BufferSize, 0, 1, 0, MaxAudioFrames, 1),
      \* several video tracks, audio disabled
      Profile(FALSE, BufferSize, MaxTracks, 1, MaxFrames, 0, 1),
      \* several audio tracks
      Profile(TRUE, BufferSize, 0, MaxTracks, 0, MaxFrames, 1),
      \* frames of both kinds
      Profile(TRUE, BufferSize, 1, 1, MaxFrames, MaxFrames, 1),
      \* start() called again while the pipeline runs
      Profile(TRUE, BufferSize, 1, 0, MaxFrames, 0, MaxTasks) }

----------------------------------------------------------------------------
VARIABLES
    profile,             \* the configuration and the bounds of this run
    running,             \* MediaPipeline.running
    usb_gadget,          \* MediaPipeline.usb_gadget: None or "gadget"
    video_track,         \* MediaPipeline.video_track
    audio_track,         \* MediaPipeline.audio_track
    video_frame_queue,   \* MediaPipeline.video_frame_queue, oldest first
    audio_sample_queue,  \* MediaPipeline.audio_sample_queue, oldest first
    video_stats,         \* MediaPipeline.video_stats
    audio_stats,         \* MediaPipeline.audio_stats
    video_task,          \* the state of the Task MediaPipeline.video_task holds
    audio_task,          \* the state of the Task MediaPipeline.audio_task holds
    video_unreferenced,  \* live _process_video tasks that video_task no longer holds
    audio_unreferenced,  \* live _process_audio tasks that audio_task no longer holds
    stop_pc,             \* the await at which a call of MediaPipeline.stop() is suspended
    video_listeners,     \* the tracks that carry the video on_frame closure
    audio_listeners,     \* the tracks that carry the audio on_frame closure
    video_arrivals,      \* the number of calls of the video on_frame so far
    audio_arrivals,      \* the number of calls of the audio on_frame so far
    video_taken,         \* the video sample popleft() returned last (0: none yet)
    audio_taken,         \* the audio sample popleft() returned last (0: none yet)
    gadget,              \* the USBGadget object of the application
    euid,                \* os.geteuid() of the process
    UDC,                 \* the attribute UDC of the gadget in configfs: its controller
    app,                 \* WebRTCamApp: where the application is in its life
    remote,              \* the remote tracks on_track was called with, and those that ended
    gadget_pc,           \* "idle", or "sleep": USBGadget.start() is suspended in _open_devices
    retry,               \* the loop variable retry of _open_devices: the passes made
    steps,               \* the lifecycle steps of the call of USBGadget.start() or stop() made last
    dangling,            \* for each kind: a handle is open that no attribute of the gadget refers to
    video_track_lock,    \* MediaPipeline.video_track_lock: free, or the call that holds it
    audio_track_lock,    \* MediaPipeline.audio_track_lock: free, or the call that holds it
    last                 \* the step taken last

vars == << profile, running, usb_gadget, video_track, audio_track,
           video_frame_queue, audio_sample_queue, video_stats, audio_stats,
           video_task, audio_task, video_unreferenced, audio_unreferenced,
           stop_pc, video_listeners, audio_listeners,
           video_arrivals, audio_arrivals, video_taken, audio_taken,
           gadget, euid, UDC, app, remote, gadget_pc, retry, steps, dangling,
           video_track_lock, audio_track_lock, last >>

video_vars == << video_track, video_frame_queue, video_stats, video_listeners,
                 video_arrivals >>
audio_vars == << audio_track, audio_sample_queue, audio_stats, audio_listeners,
                 audio_arrivals >>
task_vars == << running, video_task, audio_task, video_unreferenced,
                audio_unreferenced, stop_pc >>
taken_vars == << video_taken, audio_taken >>
discovery_vars == << gadget_pc, retry, steps, dangling >>
lock_vars == << video_track_lock, audio_track_lock >>
app_vars == << gadget, euid, UDC, app, remote, discovery_vars, lock_vars >>

\* The configuration of the run.
AUDIO_ENABLED == profile.AUDIO_ENABLED
PIPELINE_BUFFER_SIZE == profile.PIPELINE_BUFFER_SIZE

\* The tracks the transport offers in the run.
VideoTracks == { VideoTrackNames[i] : i \in 1..profile.video_tracks }
AudioTracks == { AudioTrackNames[i] : i \in 1..profile.audio_tracks }

----------------------------------------------------------------------------
(* Rationals: current_fps is a fraction << numerator, denominator >> in    *)
(* lowest terms with a positive denominator.                               *)

RECURSIVE GCD(_, _)
GCD(a, b) == IF b = 0 THEN a ELSE GCD(b, a % b)

Frac(n, d) == LET g == GCD(n, d) IN IF n = 0 THEN << 0, 1 >> ELSE << n \div g, d \div g >>

Zero == << 0, 1 >>

\* A bug: the rate is the instantaneous one, it is not smoothed.
not_smoothed(new_fps, current_fps) == new_fps

\* alpha * new_fps + (1 - alpha) * current_fps with alpha = 0.1
Smooth(new_fps, current_fps) ==
    Frac(new_fps[1] * current_fps[2] + 9 * current_fps[1] * new_fps[2],
         10 * new_fps[2] * current_fps[2])

----------------------------------------------------------------------------
(* collections.deque(maxlen=n)                                             *)

\* deque.append: a deque that is full discards its oldest item.
deque_append(q, x, maxlen) ==
    IF maxlen = 0 THEN q
    ELSE IF Len(q) >= maxlen THEN Append(Tail(q), x)
    ELSE Append(q, x)

\* A bug: pop() in the place of popleft(), the newest item is taken.
deque_pop(q) == [item |-> q[Len(q)], rest |-> SubSeq(q, 1, Len(q) - 1)]

\* A bug: the oldest item is read and stays in the deque.
deque_peek(q) == [item |-> Head(q), rest |-> q]

\* deque.popleft: the oldest item, and the deque without it.
deque_popleft(q) == [item |-> Head(q), rest |-> Tail(q)]

\* A bug: a video deque one item shorter than the test for a full queue allows.
video_maxlen_minus_one == PIPELINE_BUFFER_SIZE - 1

\* Line 28: deque(maxlen=self.config.PIPELINE_BUFFER_SIZE).
video_maxlen == PIPELINE_BUFFER_SIZE

\* A bug: an audio queue one sample longer.
audio_maxlen_plus_one == PIPELINE_BUFFER_SIZE * 10 + 1

audio_maxlen == PIPELINE_BUFFER_SIZE * 10

\* A threading.Lock that no call holds.
Free == [op |-> "free"]

----------------------------------------------------------------------------
\* The state after WebRTCamApp.__init__ (MediaPipeline.__init__ and
\* USBGadget.__init__), for a process of the effective user id uid.
Constructed(uid) ==
    /\ profile \in Profiles
    /\ running = FALSE
    /\ usb_gadget = None
    /\ video_track = None
    /\ audio_track = None
    /\ video_frame_queue = << >>
    /\ audio_sample_queue = << >>
    /\ video_stats = [frames_received |-> 0, frames_dropped |-> 0,
                      last_frame_time |-> 0, current_fps |-> Zero]
    /\ audio_stats = [samples_received |-> 0, samples_dropped |-> 0,
                      last_sample_time |-> 0]
    /\ video_task = None
    /\ audio_task = None
    /\ video_unreferenced = 0
    /\ audio_unreferenced = 0
    /\ stop_pc = "idle"
    /\ video_listeners = {}
    /\ audio_listeners = {}
    /\ video_arrivals = 0
    /\ audio_arrivals = 0
    /\ video_taken = 0
    /\ audio_taken = 0
    /\ gadget = [running |-> FALSE, video_device |-> None, audio_device |-> None,
                 gadget_configured |-> FALSE]
    /\ euid = uid
    /\ UDC = ""
    /\ app = "constructed"
    /\ remote = [tracks |-> {}, ended |-> {}]
    /\ gadget_pc = "idle"
    /\ retry = 0
    /\ steps = << >>
    /\ dangling = [video |-> FALSE, audio |-> FALSE]
    /\ video_track_lock = Free
    /\ audio_track_lock = Free
    /\ last = [op |-> "init"]

Init == Constructed(0)

----------------------------------------------------------------------------
(* Tracks and the arrival of frames.  The operations of the pipeline say   *)
(* nothing about last and the variables of the application: the            *)
(* specification that calls them does.                                     *)

add_video_track(track) ==
    /\ video_track' = track
    /\ video_listeners' = video_listeners \cup {track}
    /\ UNCHANGED << video_frame_queue, video_stats, video_arrivals >>
    /\ UNCHANGED << profile, audio_vars, task_vars, usb_gadget, taken_vars >>

\* A bug: > in the place of >= in the test for a full queue.
video_queue_over_full == Len(video_frame_queue) > PIPELINE_BUFFER_SIZE

\* Line 155: the test of on_frame for a full queue.
video_queue_full == Len(video_frame_queue) >= PIPELINE_BUFFER_SIZE

\* A bug: the dropped frame is counted as received too.
video_frame_dropped_and_received(stats) ==
    [stats EXCEPT !.frames_dropped = @ + 1, !.frames_received = @ + 1]

\* Line 156: what on_frame does to the stats when it drops the frame.
video_frame_dropped(stats) == [stats EXCEPT !.frames_dropped = @ + 1]

\* The closure on_frame of add_video_track, called at the time now with the
\* frame that is the (video_arrivals + 1)st to arrive.
video_on_frame(track, now) ==
    /\ track \in video_listeners
    /\ video_arrivals < profile.video_frames
    /\ video_arrivals' = video_arrivals + 1
    /\ IF video_queue_full
       THEN /\ video_stats' = video_frame_dropped(video_stats)
            /\ UNCHANGED video_frame_queue
       ELSE LET frame == video_arrivals + 1
                dt == IF video_stats.last_frame_time > 0
                      THEN now - video_stats.last_frame_time ELSE 1
                new_fps == IF dt > 0 THEN Frac(1, dt) ELSE Zero
            IN /\ video_frame_queue' = deque_append(video_frame_queue, frame, video_maxlen)
               /\ video_stats' =
                    [video_stats EXCEPT
                        !.frames_received = @ + 1,
                        !.last_frame_time = now,
                        !.current_fps = IF @ = Zero THEN new_fps
                                        ELSE Smooth(new_fps, @)]
    /\ last' = [op |-> "video_on_frame", track |-> track]
    /\ UNCHANGED << video_track, video_listeners >>
    /\ UNCHANGED << profile, audio_vars, task_vars, usb_gadget, taken_vars, app_vars >>

\* A bug: the registration is cleared whatever track is removed.
detach_any(registered, track) == None

\* Lines 180-181 and 216-217: the registration after a removal of track.
detach(registered, track) == IF registered = track THEN None ELSE registered

remove_video_track(track) ==
    /\ video_track' = detach(video_track, track)
    /\ UNCHANGED << video_frame_queue, video_stats, video_listeners, video_arrivals >>
    /\ UNCHANGED << profile, audio_vars, task_vars, usb_gadget, taken_vars >>

add_audio_track(track) ==
    /\ IF ~AUDIO_ENABLED
       THEN UNCHANGED << audio_track, audio_listeners >>
       ELSE /\ audio_track' = track
            /\ audio_listeners' = audio_listeners \cup {track}
    /\ UNCHANGED << audio_sample_queue, audio_stats, audio_arrivals >>
    /\ UNCHANGED << profile, video_vars, task_vars, usb_gadget, taken_vars >>

\* The closure on_frame of add_audio_track.
audio_on_frame(track, now) ==
    /\ track \in audio_listeners
    /\ audio_arrivals < profile.audio_frames
    /\ audio_arrivals' = audio_arrivals + 1
    /\ IF Len(audio_sample_queue) >= audio_maxlen
       THEN /\ audio_stats' = [audio_stats EXCEPT !.samples_dropped = @ + 1]
            /\ UNCHANGED audio_sample_queue
       ELSE LET frame == audio_arrivals + 1
            IN /\ audio_sample_queue' = deque_append(audio_sample_queue, frame, audio_maxlen)
               /\ audio_stats' = [audio_stats EXCEPT !.samples_received = @ + 1,
                                                     !.last_sample_time = now]
    /\ last' = [op |-> "audio_on_frame", track |-> track]
    /\ UNCHANGED << audio_track, audio_listeners >>
    /\ UNCHANGED << profile, video_vars, task_vars, usb_gadget, taken_vars, app_vars >>

remove_audio_track(track) ==
    /\ audio_track' = IF ~AUDIO_ENABLED THEN audio_track ELSE detach(audio_track, track)
    /\ UNCHANGED << audio_sample_queue, audio_stats, audio_listeners, audio_arrivals >>
    /\ UNCHANGED << profile, video_vars, task_vars, usb_gadget, taken_vars >>

set_usb_gadget ==
    /\ usb_gadget' = "gadget"
    /\ UNCHANGED << profile, video_vars, audio_vars, task_vars, taken_vars >>

----------------------------------------------------------------------------
(* start() and stop().  A Task is "pending" from create_task() until it    *)
(* ends (it has not run yet, or it is suspended in asyncio.sleep),         *)
(* "cancelling" once cancel() was called on it while pending, and then     *)
(* "cancelled"; a task whose coroutine returned is "finished".             *)

Live == {"pending", "cancelling"}

\* Task.cancel(): a task that is done is left as it is.
cancel(task) == IF task = "pending" THEN "cancelling" ELSE task

\* The tasks of one kind that are alive.
live_tasks(task, unreferenced) == unreferenced + (IF task \in Live THEN 1 ELSE 0)

\* A bug: start() creates the tasks and leaves running as it is.
running_not_set == UNCHANGED running

\* Line 96: self.running = True.  No await lies between the create_task of
\* lines 91-94 and this line, so no task runs before it.
running_set == running' = TRUE

\* MediaPipeline.start().  codecs_ok: every av.CodecContext.create succeeds.
\* start() reaches no await that suspends: it is one step.
start(codecs_ok) ==
    /\ IF ~codecs_ok
       THEN UNCHANGED task_vars
       ELSE /\ live_tasks(video_task, video_unreferenced) < profile.tasks
            /\ live_tasks(audio_task, audio_unreferenced) < profile.tasks
            /\ video_task' = "pending"
            /\ video_unreferenced' = live_tasks(video_task, video_unreferenced)
            /\ IF AUDIO_ENABLED
               THEN /\ audio_task' = "pending"
                    /\ audio_unreferenced' = live_tasks(audio_task, audio_unreferenced)
               ELSE UNCHANGED << audio_task, audio_unreferenced >>
            /\ running_set
            /\ UNCHANGED stop_pc
    /\ UNCHANGED << profile, video_vars, audio_vars, usb_gadget, taken_vars >>

\* A bug: stop() without the lines that reset the tracks.
stop_clear_keeps_tracks ==
    /\ video_frame_queue' = << >>
    /\ audio_sample_queue' = << >>
    /\ UNCHANGED << video_track, audio_track, video_stats, audio_stats >>
    /\ stop_pc' = "idle"

\* A bug: stop() resets the counters when it clears the queues.
stop_clear_resets_stats ==
    /\ video_frame_queue' = << >>
    /\ audio_sample_queue' = << >>
    /\ video_track' = None
    /\ audio_track' = None
    /\ video_stats' = [video_stats EXCEPT !.frames_received = 0, !.frames_dropped = 0]
    /\ audio_stats' = [audio_stats EXCEPT !.samples_received = 0, !.samples_dropped = 0]
    /\ stop_pc' = "idle"

\* The end of stop(), lines 126-138: clear the queues, reset the tracks.
stop_clear ==
    /\ video_frame_queue' = << >>
    /\ audio_sample_queue' = << >>
    /\ video_track' = None
    /\ audio_track' = None
    /\ UNCHANGED << video_stats, audio_stats >>
    /\ stop_pc' = "idle"

\* stop() is suspended in the await pc.
stop_suspends(pc) ==
    /\ stop_pc' = pc
    /\ UNCHANGED << video_frame_queue, audio_sample_queue, video_track, audio_track,
                    video_stats, audio_stats >>

\* stop() from line 119: cancel the audio task and await it.  The await
\* suspends stop() when the task is not done.
stop_audio ==
    /\ audio_task' = cancel(audio_task)
    /\ IF audio_task = "pending"
       THEN stop_suspends("await_audio_task")
       ELSE stop_clear

stop_frame == << profile, video_listeners, audio_listeners,
                 video_arrivals, audio_arrivals, usb_gadget, taken_vars,
                 video_unreferenced, audio_unreferenced >>

\* A call of MediaPipeline.stop(), up to its first await that suspends.
stop ==
    /\ running' = FALSE
    /\ video_task' = cancel(video_task)
    /\ IF video_task = "pending"
       THEN stop_suspends("await_video_task") /\ UNCHANGED audio_task
       ELSE stop_audio
    /\ UNCHANGED stop_frame

\* stop() resumes from "await self.video_task" once that task is done.
stop_after_video_task ==
    /\ stop_pc = "await_video_task"
    /\ video_task \notin Live
    /\ stop_audio
    /\ UNCHANGED << running, video_task >>
    /\ UNCHANGED stop_frame

\* stop() resumes from "await self.audio_task" once that task is done.
stop_after_audio_task ==
    /\ stop_pc = "await_audio_task"
    /\ audio_task \notin Live
    /\ stop_clear
    /\ UNCHANGED << running, video_task, audio_task >>
    /\ UNCHANGED stop_frame

----------------------------------------------------------------------------
(* The writes of the gadget, which the conversion tasks call.               *)

\* A bug: the exception of write() or flush() leaves the write call.
write_raises == [result |-> FALSE, raised |-> TRUE]

\* Lines 340-342 and 353-355: the exception is logged, False is returned.
write_failed == [result |-> FALSE, raised |-> FALSE]

\* Line 333: the guard of write_video_frame.
video_writable(g) == g.running /\ g.video_device # None

\* Line 346: the guard of write_audio_sample.
audio_writable(g) == g.running /\ g.audio_device # None /\ AUDIO_ENABLED

\* A call of a write of the gadget: whether the device node is written to,
\* what the call returns and whether an exception leaves it.  writable: the
\* guard of the call; write_ok: write() and flush() raise nothing.
write_call(writable, write_ok) ==
    IF ~writable THEN [wrote |-> FALSE, result |-> FALSE, raised |-> FALSE]
    ELSE IF write_ok THEN [wrote |-> TRUE, result |-> TRUE, raised |-> FALSE]
    ELSE [wrote |-> TRUE, result |-> write_failed.result, raised |-> write_failed.raised]

\* USBGadget.write_video_frame, lines 331-342, on the gadget g.
USBGadget_write_video_frame(g, write_ok) == write_call(video_writable(g), write_ok)

\* USBGadget.write_audio_sample, lines 344-355, on the gadget g.
USBGadget_write_audio_sample(g, write_ok) == write_call(audio_writable(g), write_ok)

\* What the loop of a conversion task does with the packets of a sample,
\* lines 258-265 and 312-319: the calls of the write it makes, and their
\* results.  An exception of the conversion, of the encoder or of a write
\* ends in the except clause of the loop, which logs it.
converted(ok, packets, call) ==
    [ok |-> ok,
     written |-> IF ~ok THEN 0 ELSE IF call.raised THEN (IF packets > 0 THEN 1 ELSE 0) ELSE packets,
     wrote |-> ok /\ packets > 0 /\ call.wrote,
     write_failed |-> ok /\ packets > 0 /\ ~call.result,
     write_raised |-> ok /\ packets > 0 /\ call.raised]

----------------------------------------------------------------------------
(* The conversion tasks.  One step is one run of a task from where it is   *)
(* suspended to its next suspension or to its end.  self is "referenced"   *)
(* for the task video_task (audio_task) holds and "unreferenced" for one   *)
(* of the others.                                                          *)

Tasks == {"referenced", "unreferenced"}

\* A bug: the test of lines 230 and 286 without its second half.
queue_empty(queue, sink) == queue = << >>

\* Lines 230 and 286: if not self.video_frame_queue or not self.usb_gadget.
nothing_to_take(queue, sink) == queue = << >> \/ sink = None

\* A bug: the task swallows what ends it and stays in its loop.
video_task_goes_on(self, how) == UNCHANGED << video_task, video_unreferenced >>

\* The task ends: its coroutine returns, or CancelledError leaves it.
video_task_ends(self, how) ==
    IF self = "referenced"
    THEN video_task' = how /\ UNCHANGED video_unreferenced
    ELSE video_unreferenced' = video_unreferenced - 1 /\ UNCHANGED video_task

\* One run of _process_video: the CancelledError thrown into it, or one pass
\* of its loop, lines 228-268.  ok: conversion and encoding raise nothing;
\* packets: the number of packets encode() returns; write_ok: the writes to
\* the device node raise nothing.
_process_video(self, ok, packets, write_ok) ==
    /\ \/ self = "referenced" /\ video_task \in Live
       \/ self = "unreferenced" /\ video_unreferenced > 0
    /\ IF self = "referenced" /\ video_task = "cancelling"
       THEN /\ video_task_ends(self, "cancelled")
            /\ last' = [op |-> "_process_video", did |-> "cancelled"]
            /\ UNCHANGED << video_frame_queue, video_taken >>
       ELSE IF ~running
       THEN /\ video_task_ends(self, "finished")
            /\ last' = [op |-> "_process_video", did |-> "finished"]
            /\ UNCHANGED << video_frame_queue, video_taken >>
       ELSE IF nothing_to_take(video_frame_queue, usb_gadget)
       THEN /\ last' = [op |-> "_process_video", did |-> "sleep"]
            /\ UNCHANGED << video_frame_queue, video_taken, video_task,
                            video_unreferenced >>
       ELSE /\ video_taken' = deque_popleft(video_frame_queue).item
            /\ video_frame_queue' = deque_popleft(video_frame_queue).rest
            /\ LET sent == converted(ok, packets,
                                      USBGadget_write_video_frame(gadget, write_ok))
               IN last' = [op |-> "_process_video", did |-> "popleft", ok |-> ok,
                           written |-> sent.written, wrote |-> sent.wrote,
                           write_failed |-> sent.write_failed,
                           write_raised |-> sent.write_raised]
            /\ UNCHANGED << video_task, video_unreferenced >>
    /\ UNCHANGED << running, audio_task, audio_unreferenced, stop_pc >>
    /\ UNCHANGED << video_track, video_stats, video_listeners, video_arrivals >>
    /\ UNCHANGED << profile, audio_vars, usb_gadget, audio_taken, app_vars >>

audio_task_ends(self, how) ==
    IF self = "referenced"
    THEN audio_task' = how /\ UNCHANGED audio_unreferenced
    ELSE audio_unreferenced' = audio_unreferenced - 1 /\ UNCHANGED audio_task

\* One run of _process_audio: the CancelledError thrown into it, the return
\* of line 279, or one pass of its loop, lines 284-322.
_process_audio(self, ok, packets, write_ok) ==
    /\ \/ self = "referenced" /\ audio_task \in Live
       \/ self = "unreferenced" /\ audio_unreferenced > 0
    /\ IF self = "referenced" /\ audio_task = "cancelling"
       THEN /\ audio_task_ends(self, "cancelled")
            /\ last' = [op |-> "_process_audio", did |-> "cancelled"]
            /\ UNCHANGED << audio_sample_queue, audio_taken >>
       ELSE IF ~AUDIO_ENABLED \/ ~running
       THEN /\ audio_task_ends(self, "finished")
            /\ last' = [op |-> "_process_audio", did |-> "finished"]
            /\ UNCHANGED << audio_sample_queue, audio_taken >>
       ELSE IF nothing_to_take(audio_sample_queue, usb_gadget)
       THEN /\ last' = [op |-> "_process_audio", did |-> "sleep"]
            /\ UNCHANGED << audio_sample_queue, audio_taken, audio_task,
                            audio_unreferenced >>
       ELSE /\ audio_taken' = deque_popleft(audio_sample_queue).item
            /\ audio_sample_queue' = deque_popleft(audio_sample_queue).rest
            /\ LET sent == converted(ok, packets,
                                      USBGadget_write_audio_sample(gadget, write_ok))
               IN last' = [op |-> "_process_audio", did |-> "popleft", ok |-> ok,
                           written |-> sent.written, wrote |-> sent.wrote,
                           write_failed |-> sent.write_failed,
                           write_raised |-> sent.write_raised]
            /\ UNCHANGED << audio_task, audio_unreferenced >>
    /\ UNCHANGED << running, video_task, video_unreferenced, stop_pc >>
    /\ UNCHANGED << audio_track, audio_stats, audio_listeners, audio_arrivals >>
    /\ UNCHANGED << profile, video_vars, usb_gadget, video_taken, app_vars >>

\* MediaPipeline.get_status(), without the rounding of fps.
get_status ==
    [running |-> running,
     video |-> [track_active |-> video_track # None,
                frames_received |-> video_stats.frames_received,
                frames_dropped |-> video_stats.frames_dropped,
                fps |-> video_stats.current_fps,
                queue_size |-> Len(video_frame_queue)],
     audio |-> [enabled |-> AUDIO_ENABLED,
                track_active |-> IF AUDIO_ENABLED THEN audio_track # None ELSE FALSE,
                samples_received |-> IF AUDIO_ENABLED THEN audio_stats.samples_received ELSE 0,
                samples_dropped |-> IF AUDIO_ENABLED THEN audio_stats.samples_dropped ELSE 0,
                queue_size |-> IF AUDIO_ENABLED THEN Len(audio_sample_queue) ELSE 0]]

\* What a run of a task can meet: whether conversion and encoding succeed,
\* how many packets encode() returns and whether the writes succeed.
Outcomes == { << TRUE, n, w >> : n \in 0..MaxPackets, w \in BOOLEAN } \cup { << FALSE, 0, TRUE >> }

----------------------------------------------------------------------------
(* The pipeline driven through its interface: the transport attaches and   *)
(* detaches tracks and delivers frames, the owner calls set_usb_gadget,    *)
(* start() and stop() one after the other, the event loop runs the tasks.  *)

Called(op) == /\ last' = op
              /\ UNCHANGED app_vars

CallAddVideoTrack ==
    \E track \in VideoTracks :
        add_video_track(track) /\ Called([op |-> "add_video_track", track |-> track])

CallRemoveVideoTrack ==
    \E track \in VideoTracks :
        remove_video_track(track) /\ Called([op |-> "remove_video_track", track |-> track])

CallAddAudioTrack ==
    \E track \in AudioTracks :
        add_audio_track(track) /\ Called([op |-> "add_audio_track", track |-> track])

CallRemoveAudioTrack ==
    \E track \in AudioTracks :
        remove_audio_track(track) /\ Called([op |-> "remove_audio_track", track |-> track])

CallSetUsbGadget ==
    set_usb_gadget /\ Called([op |-> "set_usb_gadget"])

CallStart ==
    \E codecs_ok \in BOOLEAN :
        /\ stop_pc = "idle"
        /\ start(codecs_ok)
        /\ Called([op |-> "start", result |-> codecs_ok])

Stopped(pc) == [op |-> "stop", result |-> IF pc = "idle" THEN "returned" ELSE "suspended"]

CallStop ==
    /\ stop_pc = "idle"
    /\ stop
    /\ Called(Stopped(stop_pc'))

ResumeStop ==
    /\ stop_after_video_task \/ stop_after_audio_task
    /\ Called(Stopped(stop_pc'))

\* The transport delivers a frame to a closure a track carries.
VideoFrame == \E track \in video_listeners, now \in Times : video_on_frame(track, now)

AudioFrame == \E track \in audio_listeners, now \in Times : audio_on_frame(track, now)

RunVideoTask == \E self \in Tasks, o \in Outcomes : _process_video(self, o[1], o[2], o[3])

RunAudioTask == \E self \in Tasks, o \in Outcomes : _process_audio(self, o[1], o[2], o[3])

Next ==
    \/ CallAddVideoTrack
    \/ CallRemoveVideoTrack
    \/ CallAddAudioTrack
    \/ CallRemoveAudioTrack
    \/ CallSetUsbGadget
    \/ CallStart
    \/ CallStop
    \/ ResumeStop
    \/ VideoFrame
    \/ AudioFrame
    \/ RunVideoTask
    \/ RunAudioTask

Spec == Init /\ [][Next]_vars

\* The event loop runs every task that is ready, in the order in which the
\* tasks became ready, and resumes stop() when the task it awaits is done:
\* no task and no call that can go on waits for ever.
RunVideo(self) == \E o \in Outcomes : _process_video(self, o[1], o[2], o[3])

RunAudio(self) == \E o \in Outcomes : _process_audio(self, o[1], o[2], o[3])

EventLoopIsFair ==
    /\ \A self \in Tasks : WF_vars(RunVideo(self)) /\ WF_vars(RunAudio(self))
    /\ WF_vars(ResumeStop)

\* The runs of the profile of tasks: stop() meets queues that are empty or
\* not, a sink or none, tasks that sleep or work on a sample, and tasks it
\* does not hold.
InitFair ==
    /\ Init
    /\ profile.tasks = MaxTasks

\* The profile of tasks offers no audio track: the steps of Next it has.
NextFair ==
    \/ CallAddVideoTrack
    \/ CallRemoveVideoTrack
    \/ CallSetUsbGadget
    \/ CallStart
    \/ CallStop
    \/ ResumeStop
    \/ VideoFrame
    \/ RunVideoTask
    \/ RunAudioTask

SpecFair == InitFair /\ [][NextFair]_vars /\ EventLoopIsFair

----------------------------------------------------------------------------
(* The USB gadget, as far as the application needs it: what start() and    *)
(* stop() leave behind.  A device handle is None, "uvc" (a video node      *)
(* whose name was confirmed), "other" (another video node) or "pcm".       *)

\* What start() meets: whether configfs is mounted, whether _configure_gadget
\* and _enable_gadget succeed, and the handles the discovery ends with.
StartEnvs ==
    [configfs : BOOLEAN, configure_ok : BOOLEAN, enable_ok : BOOLEAN,
     video : {None, "uvc", "other"}, audio : {None, "pcm"}]

\* USBGadget.start(): the gadget and the attribute UDC it leaves.
USBGadget_start(g, uid, env) ==
    IF uid # 0
    THEN \* _find_existing_gadgets: the first video node and the first pcm
         \* node that open, the name of the video node is not asked for
         [gadget |-> [g EXCEPT !.video_device = env.video,
                               !.audio_device = env.audio,
                               !.running = (env.video # None)],
          UDC |-> UDC]
    ELSE IF ~env.configfs \/ ~env.configure_ok
    THEN [gadget |-> g, UDC |-> UDC]
    ELSE IF ~env.enable_ok
    THEN [gadget |-> [g EXCEPT !.gadget_configured = TRUE], UDC |-> UDC]
    ELSE LET audio == IF AUDIO_ENABLED THEN env.audio ELSE None
             found == env.video = "uvc" /\ (~AUDIO_ENABLED \/ audio = "pcm")
         IN [gadget |-> [g EXCEPT !.gadget_configured = TRUE,
                                  !.video_device = env.video,
                                  !.audio_device = audio,
                                  !.running = found \/ g.running],
             UDC |-> "udc"]

\* A bug: stop() without its except clause, the exception leaves it.
stop_not_caught == [result |-> FALSE, raised |-> TRUE]

\* Lines 91-93: stop() catches the exception, logs it and returns False.
stop_caught == [result |-> FALSE, raised |-> FALSE]

\* A bug: the unbind is written whoever configured the gadget.
unbind_always(g, uid) == TRUE

\* Line 84: the gadget is disabled if this object configured it, as root.
unbind_due(g, uid) == g.gadget_configured /\ uid = 0

\* A bug: the unbind is written before the handles are closed.
unbind_first(closes, unbind) == unbind \o closes

\* Lines 75-85: the handles are closed, then the gadget is disabled.
teardown(closes, unbind) == closes \o unbind

\* USBGadget.stop().  A close() that raises ends stop() in its except clause;
\* _disable_gadget catches what its write raises.  steps: the closes and the
\* write of the unbind that were made, in their order.
USBGadget_stop(g, uid, video_close_ok, audio_close_ok, unbind_ok) ==
    LET close_video == IF g.video_device # None THEN << "close_video" >> ELSE << >>
        close_audio == IF g.audio_device # None THEN << "close_audio" >> ELSE << >>
        unbind == IF unbind_due(g, uid) THEN << "unbind" >> ELSE << >>
    IN IF g.video_device # None /\ ~video_close_ok
       THEN [gadget |-> g, UDC |-> UDC, steps |-> close_video,
             result |-> stop_caught.result, raised |-> stop_caught.raised]
       ELSE IF g.audio_device # None /\ ~audio_close_ok
       THEN [gadget |-> [g EXCEPT !.video_device = None], UDC |-> UDC,
             steps |-> close_video \o close_audio,
             result |-> stop_caught.result, raised |-> stop_caught.raised]
       ELSE [gadget |-> [g EXCEPT !.video_device = None, !.audio_device = None,
                                  !.running = FALSE],
             UDC |-> IF unbind_due(g, uid) /\ unbind_ok THEN "" ELSE UDC,
             steps |-> teardown(close_video \o close_audio, unbind),
             result |-> TRUE, raised |-> FALSE]

----------------------------------------------------------------------------
(* The WebRTC server, as far as it drives the pipeline.                    *)

\* MediaRelay.subscribe(track): a proxy of the track, another object.
subscribe(track) == "relay_" \o track

kind(track) == IF track \in { VideoTrackNames[i] : i \in DOMAIN VideoTrackNames }
               THEN "video" ELSE "audio"

\* The handler on_track of handle_offer, called with a track of the peer.
on_track(track) ==
    /\ track \notin remote.tracks
    /\ IF kind(track) = "audio" /\ AUDIO_ENABLED
       THEN add_audio_track(subscribe(track))
       ELSE IF kind(track) = "video"
       THEN add_video_track(subscribe(track))
       ELSE UNCHANGED << profile, video_vars, audio_vars, task_vars, usb_gadget,
                         taken_vars >>
    /\ remote' = [remote EXCEPT !.tracks = @ \cup {track}]

\* The handler on_ended that on_track registers on the track.
on_ended(track) ==
    /\ track \in remote.tracks \ remote.ended
    /\ IF kind(track) = "audio"
       THEN remove_audio_track(track)
       ELSE remove_video_track(track)
    /\ remote' = [remote EXCEPT !.ended = @ \cup {track}]

----------------------------------------------------------------------------
(* The application: WebRTCamApp.start() and WebRTCamApp.stop().            *)

\* WebRTCamApp.start() up to the web server being up.  Nothing else runs
\* before: the tasks of the pipeline are created here and no offer can come.
AppStart ==
    /\ app = "constructed"
    /\ \E env \in StartEnvs :
          LET started == USBGadget_start(gadget, euid, env)
          IN gadget' = started.gadget /\ UDC' = started.UDC
    /\ \E codecs_ok \in BOOLEAN : start(codecs_ok)
    /\ app' = "started"
    /\ last' = [op |-> "app_start"]
    /\ UNCHANGED << euid, remote, discovery_vars, lock_vars >>

OnTrack ==
    \E track \in VideoTracks \cup AudioTracks :
        /\ app = "started"
        /\ on_track(track)
        /\ last' = [op |-> "on_track", track |-> track]
        /\ UNCHANGED << gadget, euid, UDC, app, discovery_vars, lock_vars >>

OnEnded ==
    \E track \in remote.tracks :
        /\ app \in {"started", "stopping"}
        /\ on_ended(track)
        /\ last' = [op |-> "on_ended", track |-> track]
        /\ UNCHANGED << gadget, euid, UDC, app, discovery_vars, lock_vars >>

\* A bug: usb_gadget.stop() is called without waiting for the end of
\* media_pipeline.stop().
pipeline_stop_not_awaited == TRUE

\* Line 107 of app.py: await self.media_pipeline.stop() has returned.
pipeline_stop_awaited == stop_pc' = "idle"

\* After media_pipeline.stop() returned, WebRTCamApp.stop() goes on to
\* usb_gadget.stop(), which reaches no await that suspends.
AppStopGadget ==
    IF pipeline_stop_awaited
    THEN /\ \E video_close_ok, audio_close_ok, unbind_ok \in BOOLEAN :
              LET stopped == USBGadget_stop(gadget, euid, video_close_ok,
                                            audio_close_ok, unbind_ok)
              IN /\ gadget' = stopped.gadget
                 /\ UDC' = stopped.UDC
                 /\ last' = [op |-> "app_stop", result |-> "returned",
                             gadget_result |-> stopped.result,
                             raised |-> stopped.raised,
                             steps |-> stopped.steps]
         /\ app' = "stopped"
    ELSE /\ app' = "stopping"
         /\ last' = [op |-> "app_stop", result |-> "suspended"]
         /\ UNCHANGED << gadget, UDC >>

\* WebRTCamApp.stop(): after webrtc_server.stop(), media_pipeline.stop().
AppStop ==
    /\ app = "started"
    /\ stop
    /\ AppStopGadget
    /\ UNCHANGED << euid, remote, discovery_vars, lock_vars >>

AppResumeStop ==
    /\ app = "stopping"
    /\ stop_after_video_task \/ stop_after_audio_task
    /\ AppStopGadget
    /\ UNCHANGED << euid, remote, discovery_vars, lock_vars >>

InitApp == \E uid \in {0, 1000} : Constructed(uid)

NextApp ==
    \/ AppStart
    \/ OnTrack
    \/ OnEnded
    \/ VideoFrame
    \/ AudioFrame
    \/ RunVideoTask
    \/ RunAudioTask
    \/ AppStop
    \/ AppResumeStop

SpecApp == InitApp /\ [][NextApp]_vars

----------------------------------------------------------------------------
(* The USB gadget in detail: provisioning, binding, the passes of the      *)
(* discovery, the fallback without privilege, stop() and the writes.       *)
(* A device handle is None, "uvc" (an open handle to a video node whose    *)
(* card name starts with UVC_DEVICE_NAME), "other" (an open handle to      *)
(* another video node) or "pcm".  Python closes a file that nothing refers *)
(* to when it collects it: dangling counts such handles until then.        *)

\* Line 274 of usb_gadget.py: max_retries = 10.
max_retries == 10

VideoNodes == 0..(MaxVideoNodes - 1)
AudioNodes == 0..(MaxAudioNodes - 1)

\* What a pass meets at /dev/video<i>: the node is "absent" (it does not
\* exist, or open() raises), "unqueryable" (VIDIOC_QUERYCAP raises),
\* it reports another card name ("other_name") or the gadget's ("match").
VideoEnvs == [VideoNodes -> {"absent", "unqueryable", "other_name", "match"}]

\* What a pass meets at /dev/snd/pcmC<i>D0p: whether it exists and opens.
AudioEnvs == [AudioNodes -> BOOLEAN]

\* What start() meets before the discovery: whether configfs is mounted,
\* whether every write of _configure_gadget succeeds, whether /sys/class/udc
\* lists a controller, whether the write of UDC succeeds.
ProvisionEnvs == [configfs : BOOLEAN, provision_ok : BOOLEAN,
                  controller : BOOLEAN, bind_ok : BOOLEAN]

\* The attribute of a kind at the start of a scan of its candidates.
Probe(device) == [device |-> device, node |-> -1, found |-> FALSE, dropped |-> 0]

\* self.video_device = open(path, "wb") at the candidate i: the handle the
\* attribute held, if any, is open and nothing refers to it any more.
opened(st, handle, i) ==
    [st EXCEPT !.device = handle, !.node = i,
               !.dropped = @ + (IF st.device # None THEN 1 ELSE 0)]

\* Lines 294-295: self.video_device.close(); self.video_device = None.
closed(st) == [st EXCEPT !.device = None, !.node = -1]

handle_of(response) == IF response = "match" THEN "uvc" ELSE "other"

\* A bug: every card name is taken for the gadget's.
any_name(response) == TRUE

\* Line 288: cap.card.decode().startswith(self.config.UVC_DEVICE_NAME).
name_matches(response) == response = "match"

\* The loop over the video candidates of _open_devices, lines 278-297, from
\* the candidate i on.
RECURSIVE probe_video(_, _, _)
probe_video(i, st, env) ==
    IF i >= MaxVideoNodes THEN st
    ELSE IF env[i] = "absent" THEN probe_video(i + 1, st, env)
    ELSE IF env[i] = "unqueryable"
    THEN probe_video(i + 1, closed(opened(st, handle_of(env[i]), i)), env)
    ELSE IF name_matches(env[i])
    THEN [opened(st, handle_of(env[i]), i) EXCEPT !.found = TRUE]
    ELSE probe_video(i + 1, opened(st, handle_of(env[i]), i), env)

\* The loop over the pcm candidates, lines 302-311 and 110-118: the first
\* that opens.
RECURSIVE probe_audio(_, _, _)
probe_audio(i, st, env) ==
    IF i >= MaxAudioNodes THEN st
    ELSE IF env[i] THEN [opened(st, "pcm", i) EXCEPT !.found = TRUE]
    ELSE probe_audio(i + 1, st, env)

\* The loop over the video candidates of _find_existing_gadgets, lines
\* 99-107: the first that opens, no capability is queried.
RECURSIVE attach_video(_, _, _)
attach_video(i, st, env) ==
    IF i >= MaxVideoNodes THEN st
    ELSE IF env[i] = "absent" THEN attach_video(i + 1, st, env)
    ELSE [opened(st, handle_of(env[i]), i) EXCEPT !.found = TRUE]

\* A bug: the pass succeeds with the video node alone.
video_found_only(v, a) == v.found

\* Line 316: if video_found and audio_found.
all_found(v, a) == v.found /\ a.found

\* One pass of the loop of _open_devices, lines 275-317.
_open_devices_pass(g, venv, aenv) ==
    LET v == probe_video(0, Probe(g.video_device), venv)
        a == IF AUDIO_ENABLED
             THEN probe_audio(0, Probe(g.audio_device), aenv)
             ELSE [Probe(g.audio_device) EXCEPT !.found = TRUE]
    IN [video |-> v, audio |-> a, found |-> all_found(v, a)]

\* _find_existing_gadgets, lines 95-124.
_find_existing_gadgets(g, venv, aenv) ==
    LET v == attach_video(0, Probe(g.video_device), venv)
        a == probe_audio(0, Probe(g.audio_device), aenv)
    IN [video |-> v, audio |-> a, found |-> v.device # None]

\* The handles a scan dropped are open until they are collected.
drop(scan) ==
    [video |-> dangling.video \/ scan.video.dropped > 0,
     audio |-> dangling.audio \/ scan.audio.dropped > 0]

\* A bug: the controller is not looked for, the bind is written anyway.
controller_not_checked(env) == TRUE

\* Lines 234-243 of _enable_gadget: a controller is listed.
controller_found(env) == env.controller

\* start() with privilege up to _open_devices, lines 38-54 with
\* _configure_gadget and _enable_gadget: the steps made, the gadget and the
\* attribute UDC after them, and what failed.
provision_and_bind(g, env) ==
    IF ~env.configfs
    THEN [gadget |-> g, UDC |-> UDC, steps |-> << >>, failed |-> "configfs"]
    ELSE IF ~env.provision_ok
    THEN [gadget |-> g, UDC |-> UDC, steps |-> << "provision" >>,
          failed |-> "provision"]
    ELSE IF ~controller_found(env)
    THEN [gadget |-> [g EXCEPT !.gadget_configured = TRUE], UDC |-> UDC,
          steps |-> << "provision" >>, failed |-> "controller"]
    ELSE IF ~env.bind_ok
    THEN [gadget |-> [g EXCEPT !.gadget_configured = TRUE], UDC |-> UDC,
          steps |-> << "provision", "bind" >>, failed |-> "bind"]
    ELSE [gadget |-> [g EXCEPT !.gadget_configured = TRUE], UDC |-> "udc",
          steps |-> << "provision", "bind" >>, failed |-> "none"]

\* A bug: the loop of _open_devices never ends.
never_exhausted(n) == FALSE

\* Line 275: range(max_retries) is exhausted after the pass n.
retries_exhausted(n) == n >= max_retries

\* What the log keeps of the nodes a scan met: the video candidates that
\* report the gadget's name, and whether a candidate opens at all.
matching(venv) == { i \in VideoNodes : venv[i] = "match" }

video_present(venv) == \E i \in VideoNodes : venv[i] # "absent"

audio_present(aenv) == \E i \in AudioNodes : aenv[i]

\* Every node the gadget requires is there: a video node of its name, and
\* a pcm node when audio is enabled.
required_present(venv, aenv) ==
    matching(venv) # {} /\ (AUDIO_ENABLED => audio_present(aenv))

gadget_frame == << profile, video_vars, audio_vars, task_vars, usb_gadget,
                   taken_vars, euid, app, remote, lock_vars >>

\* The pass n + 1 of _open_devices on the gadget g, lines 275-321, and what
\* follows it: start() returns True (lines 62-64), it sleeps, or it returns
\* False after the last pass (lines 322-324, 56-59).
discovery(g, n, venv, aenv) ==
    LET pass == _open_devices_pass(g, venv, aenv)
        after == [g EXCEPT !.video_device = pass.video.device,
                           !.audio_device = pass.audio.device]
        seen(result, failed) ==
            [op |-> "gadget_start", result |-> result, failed |-> failed,
             matching |-> matching(venv), video_nodes |-> video_present(venv),
             audio_nodes |-> audio_present(aenv), node |-> pass.video.node,
             required |-> required_present(venv, aenv)]
    IN /\ dangling' = drop(pass)
       /\ IF pass.found
          THEN /\ gadget' = [after EXCEPT !.running = TRUE]
               /\ gadget_pc' = "idle"
               /\ retry' = n
               /\ last' = seen(TRUE, "none")
          ELSE IF retries_exhausted(n + 1)
          THEN /\ gadget' = after
               /\ gadget_pc' = "idle"
               /\ retry' = n + 1
               /\ last' = seen(FALSE, "discovery")
          ELSE /\ gadget' = after
               /\ gadget_pc' = "sleep"
               /\ retry' = n + 1
               /\ last' = [op |-> "_open_devices",
                           required |-> required_present(venv, aenv)]

\* start() without privilege, lines 32-36.
start_unprivileged(venv, aenv) ==
    LET scan == _find_existing_gadgets(gadget, venv, aenv)
    IN /\ gadget' = [gadget EXCEPT !.video_device = scan.video.device,
                                   !.audio_device = scan.audio.device,
                                   !.running = scan.found]
       /\ dangling' = drop(scan)
       /\ steps' = << "attach" >>
       /\ last' = [op |-> "gadget_start", result |-> scan.found,
                   failed |-> IF scan.video.found THEN "none" ELSE "no_video",
                   matching |-> matching(venv), video_nodes |-> video_present(venv),
                   audio_nodes |-> audio_present(aenv), node |-> scan.video.node]
       /\ UNCHANGED << UDC, gadget_pc, retry >>

\* A call of USBGadget.start(), up to its return or to the first sleep of
\* _open_devices.
GadgetStart ==
    /\ gadget_pc = "idle"
    /\ IF euid # 0
       THEN \E venv \in VideoEnvs, aenv \in AudioEnvs : start_unprivileged(venv, aenv)
       ELSE \E env \in ProvisionEnvs :
               LET bound == provision_and_bind(gadget, env)
               IN /\ UDC' = bound.UDC
                  /\ IF bound.failed # "none"
                     THEN /\ gadget' = bound.gadget
                          /\ steps' = bound.steps
                          /\ last' = [op |-> "gadget_start", result |-> FALSE,
                                      failed |-> bound.failed, env |-> env]
                          /\ UNCHANGED << gadget_pc, retry, dangling >>
                     ELSE /\ steps' = bound.steps \o << "discover" >>
                          /\ \E venv \in VideoEnvs, aenv \in AudioEnvs :
                                discovery(bound.gadget, 0, venv, aenv)
    /\ UNCHANGED gadget_frame

\* _open_devices resumes from its sleep with the next pass.
OpenDevicesRetry ==
    /\ gadget_pc = "sleep"
    /\ \E venv \in VideoEnvs, aenv \in AudioEnvs :
          discovery(gadget, retry, venv, aenv)
    /\ UNCHANGED << UDC, steps >>
    /\ UNCHANGED gadget_frame

\* A call of USBGadget.stop(); stop() reaches no await that suspends.
GadgetStop ==
    /\ gadget_pc = "idle"
    /\ \E video_close_ok, audio_close_ok, unbind_ok \in BOOLEAN :
          LET stopped == USBGadget_stop(gadget, euid, video_close_ok,
                                        audio_close_ok, unbind_ok)
          IN /\ gadget' = stopped.gadget
             /\ UDC' = stopped.UDC
             /\ steps' = stopped.steps
             /\ last' = [op |-> "gadget_stop", result |-> stopped.result,
                         raised |-> stopped.raised,
                         unbound |-> unbind_due(gadget, euid) /\ stopped.result /\ unbind_ok]
    /\ UNCHANGED << gadget_pc, retry, dangling >>
    /\ UNCHANGED gadget_frame


\* write_video_frame, lines 331-342.  write_ok: write() and flush() raise
\* nothing.  The conversion tasks that write are created after start() of
\* the gadget returned (app.py, lines 89-90).
write_video_frame(write_ok) ==
    /\ gadget_pc = "idle"
    /\ LET call == USBGadget_write_video_frame(gadget, write_ok)
       IN last' = [op |-> "write_video_frame", wrote |-> call.wrote,
                   result |-> call.result, raised |-> call.raised]
    /\ UNCHANGED << gadget, UDC, discovery_vars >>
    /\ UNCHANGED gadget_frame

\* write_audio_sample, lines 344-355.
write_audio_sample(write_ok) ==
    /\ gadget_pc = "idle"
    /\ LET call == USBGadget_write_audio_sample(gadget, write_ok)
       IN last' = [op |-> "write_audio_sample", wrote |-> call.wrote,
                   result |-> call.result, raised |-> call.raised]
    /\ UNCHANGED << gadget, UDC, discovery_vars >>
    /\ UNCHANGED gadget_frame

WriteVideoFrame == \E write_ok \in BOOLEAN : write_video_frame(write_ok)

WriteAudioSample == \E write_ok \in BOOLEAN : write_audio_sample(write_ok)

\* Python collects the files nothing refers to and closes them.
Collect ==
    /\ dangling.video \/ dangling.audio
    /\ dangling' = [video |-> FALSE, audio |-> FALSE]
    /\ last' = [op |-> "collect"]
    /\ UNCHANGED << gadget, UDC, gadget_pc, retry, steps >>
    /\ UNCHANGED gadget_frame

\* USBGadget.get_status, lines 357-364.
USBGadget_get_status(g) ==
    [running |-> g.running,
     video_device |-> g.video_device # None,
     audio_device |-> g.audio_device # None,
     gadget_configured |-> g.gadget_configured]

\* The gadget reads AUDIO_ENABLED of the configuration and nothing else of
\* the profile: one profile for each value.
InitGadget ==
    /\ \E uid \in {0, 1000} : Constructed(uid)
    /\ profile.tasks = 1
    /\ profile.video_tracks + profile.audio_tracks = 1

NextGadget ==
    \/ GadgetStart
    \/ OpenDevicesRetry
    \/ GadgetStop
    \/ WriteVideoFrame
    \/ WriteAudioSample
    \/ Collect

SpecGadget == InitGadget /\ [][NextGadget]_vars

----------------------------------------------------------------------------
(* The pipeline with a sink: its owner starts a gadget and hands it to the *)
(* pipeline with set_usb_gadget, starts the pipeline and lets it run: the  *)
(* transport attaches tracks and delivers frames, the event loop runs the  *)
(* tasks.  The gadget is started before it is handed over, as app.py       *)
(* starts it before the pipeline.                                          *)

OwnerStartsGadget ==
    /\ usb_gadget = None
    /\ \E env \in StartEnvs :
          LET started == USBGadget_start(gadget, euid, env)
          IN /\ gadget' = started.gadget
             /\ UDC' = started.UDC
             /\ last' = [op |-> "gadget_start", result |-> started.gadget.running]
    /\ UNCHANGED << euid, app, remote, discovery_vars, lock_vars >>
    /\ UNCHANGED << profile, video_vars, audio_vars, task_vars, usb_gadget, taken_vars >>

\* The runs in which samples queue up behind the one a task works on.
InitSink ==
    /\ Constructed(0)
    /\ profile.video_frames = MaxVideoFrames \/ profile.audio_frames = MaxAudioFrames

NextSink ==
    \/ OwnerStartsGadget
    \/ CallSetUsbGadget
    \/ CallStart
    \/ CallAddVideoTrack
    \/ CallAddAudioTrack
    \/ VideoFrame
    \/ AudioFrame
    \/ RunVideoTask
    \/ RunAudioTask

SpecSink == InitSink /\ [][NextSink]_vars

----------------------------------------------------------------------------
(* The track locks.  video_track_lock and audio_track_lock are             *)
(* threading.Lock objects: they order the calls of threads.  Here a call   *)
(* of add_*_track or remove_*_track is two steps, the entry of its with    *)
(* block, and its body with the release of the lock; the closure on_frame  *)
(* is called by the thread of the transport and is one step, as it         *)
(* acquires nothing.                                                       *)

\* with self.video_track_lock (lines 148, 179), with self.audio_track_lock
\* (lines 190, 215): the lock is acquired when it is free.
acquire(lock, op, track) ==
    /\ lock = Free
    /\ lock' = [op |-> op, track |-> track]

EnterVideoLock ==
    /\ \E track \in VideoTracks, op \in {"add_video_track", "remove_video_track"} :
          /\ acquire(video_track_lock, op, track)
          /\ last' = [op |-> "enter", call |-> op, track |-> track]
    /\ UNCHANGED << gadget, euid, UDC, app, remote, discovery_vars, audio_track_lock >>
    /\ UNCHANGED << profile, video_vars, audio_vars, task_vars, usb_gadget, taken_vars >>

EnterAudioLock ==
    /\ AUDIO_ENABLED
    /\ \E track \in AudioTracks, op \in {"add_audio_track", "remove_audio_track"} :
          /\ acquire(audio_track_lock, op, track)
          /\ last' = [op |-> "enter", call |-> op, track |-> track]
    /\ UNCHANGED << gadget, euid, UDC, app, remote, discovery_vars, video_track_lock >>
    /\ UNCHANGED << profile, video_vars, audio_vars, task_vars, usb_gadget, taken_vars >>

\* The body of the with block of the call that holds the lock, and the
\* release of the lock at its end.
LeaveVideoLock ==
    /\ video_track_lock # Free
    /\ IF video_track_lock.op = "add_video_track"
       THEN add_video_track(video_track_lock.track)
       ELSE remove_video_track(video_track_lock.track)
    /\ video_track_lock' = Free
    /\ last' = [op |-> video_track_lock.op, track |-> video_track_lock.track]
    /\ UNCHANGED << gadget, euid, UDC, app, remote, discovery_vars, audio_track_lock >>

LeaveAudioLock ==
    /\ audio_track_lock # Free
    /\ IF audio_track_lock.op = "add_audio_track"
       THEN add_audio_track(audio_track_lock.track)
       ELSE remove_audio_track(audio_track_lock.track)
    /\ audio_track_lock' = Free
    /\ last' = [op |-> audio_track_lock.op, track |-> audio_track_lock.track]
    /\ UNCHANGED << gadget, euid, UDC, app, remote, discovery_vars, video_track_lock >>

NextThreads ==
    \/ EnterVideoLock
    \/ LeaveVideoLock
    \/ EnterAudioLock
    \/ LeaveAudioLock
    \/ VideoFrame
    \/ AudioFrame

SpecThreads == Init /\ [][NextThreads]_vars

----------------------------------------------------------------------------
(* The claims.                                                             *)

\* C1: in every reachable state of the pipeline the video queue holds at
\* most PIPELINE_BUFFER_SIZE frames and the audio queue at most
\* 10 x PIPELINE_BUFFER_SIZE samples.
C1_QueuesBounded ==
    /\ Len(video_frame_queue) <= PIPELINE_BUFFER_SIZE
    /\ Len(audio_sample_queue) <= 10 * PIPELINE_BUFFER_SIZE

\* The audio queue is at its capacity, a sample was refused, the pipeline ran.
C1_Witness ==
    /\ Len(audio_sample_queue) = 10 * PIPELINE_BUFFER_SIZE
    /\ audio_arrivals > 10 * PIPELINE_BUFFER_SIZE
    /\ audio_taken > 0

\* A step is the arrival of a video frame (audio sample).
VideoArrival == video_arrivals' = video_arrivals + 1
AudioArrival == audio_arrivals' = audio_arrivals + 1

\* C2: per kind, the dropped counter counts the arrivals that found the
\* queue at its capacity: each of them adds exactly one to it, and no
\* other step (an accepted arrival, a dequeue, start, stop) changes it.
C2_DroppedCountsRejected ==
    [][ /\ video_stats'.frames_dropped = video_stats.frames_dropped +
            (IF VideoArrival /\ Len(video_frame_queue) >= PIPELINE_BUFFER_SIZE
             THEN 1 ELSE 0)
        /\ audio_stats'.samples_dropped = audio_stats.samples_dropped +
            (IF AudioArrival /\ Len(audio_sample_queue) >= 10 * PIPELINE_BUFFER_SIZE
             THEN 1 ELSE 0) ]_vars

\* Two video frames were stored and two were refused.
C2_Witness ==
    /\ video_stats.frames_received = 2
    /\ video_stats.frames_dropped = 2
    /\ video_arrivals = 4

\* C3: an arrival that finds the queue of its kind at capacity changes the
\* dropped counter and nothing else: the queue keeps its contents, oldest
\* sample included, and the received counter, the time of the last arrival
\* and the smoothed rate keep their values.
C3_DropChangesOnlyDropped ==
    [][ /\ (VideoArrival /\ Len(video_frame_queue) >= PIPELINE_BUFFER_SIZE) =>
              /\ video_frame_queue' = video_frame_queue
              /\ video_stats' = [video_stats EXCEPT !.frames_dropped = @ + 1]
              /\ UNCHANGED << video_track, video_listeners, audio_vars, task_vars,
                              usb_gadget, taken_vars, app_vars >>
        /\ (AudioArrival /\ Len(audio_sample_queue) >= 10 * PIPELINE_BUFFER_SIZE) =>
              /\ audio_sample_queue' = audio_sample_queue
              /\ audio_stats' = [audio_stats EXCEPT !.samples_dropped = @ + 1]
              /\ UNCHANGED << audio_track, audio_listeners, video_vars, task_vars,
                              usb_gadget, taken_vars, app_vars >> ]_vars

\* The third frame was dropped at a queue that still holds the first two.
C3_Witness ==
    /\ last.op = "video_on_frame"
    /\ video_arrivals = 3
    /\ video_stats.frames_dropped = 1
    /\ video_frame_queue = << 1, 2 >>

\* The samples of a queue, as a set.
Samples(q) == { q[i] : i \in 1..Len(q) }

\* C4: samples are numbered in the order of their arrival.  Every dequeue
\* takes the oldest sample of the queue, a sample that arrived after every
\* sample dequeued before and before every sample that stays, so samples
\* leave a queue in the order in which they were accepted.  When
\* capacity + 1 video frames arrived and none was dequeued or cleared, the
\* queue holds the first capacity frames in their order and the last one
\* was dropped.
C4_Fifo ==
    [][ /\ video_taken' # video_taken =>
              /\ video_taken' > video_taken
              /\ video_taken' = Head(video_frame_queue)
              /\ video_frame_queue' = Tail(video_frame_queue)
              /\ \A x \in Samples(video_frame_queue') : x > video_taken'
        /\ audio_taken' # audio_taken =>
              /\ audio_taken' > audio_taken
              /\ audio_taken' = Head(audio_sample_queue)
              /\ audio_sample_queue' = Tail(audio_sample_queue)
              /\ \A x \in Samples(audio_sample_queue') : x > audio_taken'
        /\ ( /\ video_arrivals' = PIPELINE_BUFFER_SIZE + 1
             /\ video_stats'.frames_received = PIPELINE_BUFFER_SIZE
             /\ Len(video_frame_queue') = PIPELINE_BUFFER_SIZE ) =>
              /\ video_frame_queue' = [i \in 1..PIPELINE_BUFFER_SIZE |-> i]
              /\ video_stats'.frames_dropped = 1 ]_vars

\* Three video frames arrived at a queue of two, the third was dropped and
\* the two stored ones were dequeued.
C4_Witness ==
    /\ video_arrivals = 3
    /\ video_stats.frames_dropped = 1
    /\ video_taken = 2
    /\ video_frame_queue = << >>
    /\ last.op = "_process_video"

\* C5: in the application, once WebRTCamApp.start() has run and the gadget
\* started, the output of the pipeline is wired to the gadget, so that a
\* sample accepted into a queue is dequeued and written: no sample waits in
\* a queue of a pipeline that has no sink.
C5_AcceptedSamplesReachSink ==
    ( /\ app = "started"
      /\ gadget.running
      /\ video_frame_queue # << >> \/ audio_sample_queue # << >> )
    => usb_gadget # None

\* C6: after any calls of start() and stop() at most one conversion task of
\* each kind is alive.
C6_OneTaskPerKind ==
    /\ live_tasks(video_task, video_unreferenced) <= 1
    /\ live_tasks(audio_task, audio_unreferenced) <= 1

\* stop() is called on a pipeline that is stopped: it is not running and the
\* tasks it holds, if any, are done.
StopCalledWhenStopped ==
    /\ stop_pc = "idle"
    /\ last'.op = "stop"
    /\ ~running
    /\ video_task \notin Live
    /\ audio_task \notin Live

\* C7: stop() called before any start(), or again after stop(), returns
\* without waiting and leaves running false, both queues empty and both
\* track registrations cleared.
C7_StopWhenStopped ==
    [][ StopCalledWhenStopped =>
          /\ last'.result = "returned"
          /\ stop_pc' = "idle"
          /\ ~running'
          /\ video_frame_queue' = << >>
          /\ audio_sample_queue' = << >>
          /\ video_track' = None
          /\ audio_track' = None
          /\ UNCHANGED << video_task, audio_task >> ]_vars

\* stop() returned on a pipeline that never started, after a frame had
\* arrived on a track.
C7_Witness ==
    /\ last = [op |-> "stop", result |-> "returned"]
    /\ video_task = None
    /\ video_stats.frames_received > 0
    /\ video_frame_queue = << >>
    /\ video_track = None

\* C8: no step of stop() and no start() changes the received and dropped
\* counters, and when stop() returns both queues are empty and both track
\* registrations are cleared.
C8_StopKeepsCounters ==
    [][ /\ last'.op \in {"stop", "start"} =>
              UNCHANGED << video_stats, audio_stats >>
        /\ last' = [op |-> "stop", result |-> "returned"] =>
              /\ Len(video_frame_queue') = 0
              /\ Len(audio_sample_queue') = 0
              /\ video_track' = None
              /\ audio_track' = None ]_vars

\* The pipeline ran, was stopped and is started again: the counters of the
\* frames received, dropped and dequeued before are still there.
C8_Witness ==
    /\ last = [op |-> "start", result |-> TRUE]
    /\ profile.tasks = 1
    /\ video_taken > 0
    /\ video_stats.frames_received > 1
    /\ video_stats.frames_dropped > 0

\* C9: remove_video_track(X) and remove_audio_track(X) clear the
\* registration of their kind when it is X and change nothing otherwise;
\* the queues, the stats and everything else stay as they are.
C9_StaleRemoveIsNoOp ==
    [][ /\ last'.op = "remove_video_track" =>
              /\ video_track' = IF video_track = last'.track THEN None ELSE video_track
              /\ UNCHANGED << video_frame_queue, video_stats, video_listeners,
                              audio_vars, task_vars, usb_gadget >>
        /\ last'.op = "remove_audio_track" =>
              /\ audio_track' = IF audio_track = last'.track THEN None ELSE audio_track
              /\ UNCHANGED << audio_sample_queue, audio_stats, audio_listeners,
                              video_vars, task_vars, usb_gadget >> ]_vars

\* A track was removed that is not the registered one, which stays, with a
\* frame in the queue.
C9_Witness ==
    /\ last.op = "remove_video_track"
    /\ video_track \notin {None, last.track}
    /\ last.track \in video_listeners
    /\ video_frame_queue # << >>

\* C10: after the track-ended notification of a track the transport
\* attached, the source of that track is not the registered source of its
\* kind any more.
C10_EndedTrackDetached ==
    last.op = "on_ended" =>
        IF kind(last.track) = "video"
        THEN video_track # subscribe(last.track)
        ELSE audio_track # subscribe(last.track)

\* A call of USBGadget.start() by root has finished after a discovery.
DiscoveryFinished ==
    /\ last.op = "gadget_start"
    /\ euid = 0
    /\ steps = << "provision", "bind", "discover" >>

\* C11: as root, when the provisioning and the binding succeed and a pass of
\* the discovery meets every node the gadget requires, start() returns True,
\* the gadget runs, it holds an open handle to a video node of its name and,
\* when audio is enabled, an open handle to a pcm node, and the steps were
\* made in the order provision, bind, discover.  A start() of root returns
\* True in no other case.
C11_StartSucceeds ==
    /\ (DiscoveryFinished /\ last.required) =>
          /\ last.result = TRUE
          /\ gadget.running
          /\ gadget.gadget_configured
          /\ UDC = "udc"
          /\ gadget.video_device = "uvc"
          /\ AUDIO_ENABLED => gadget.audio_device = "pcm"
    /\ (last.op = "gadget_start" /\ euid = 0 /\ last.result) =>
          DiscoveryFinished /\ last.required

\* start() of root succeeded with audio enabled, at a pass after the first.
C11_Witness ==
    /\ DiscoveryFinished
    /\ last.result
    /\ AUDIO_ENABLED
    /\ retry > 0
    /\ gadget.running
    /\ gadget.audio_device = "pcm"

\* The steps start() of root makes when the environment env fails it before
\* the discovery.
StepsUpTo(env) ==
    IF ~env.configfs THEN << >>
    ELSE IF ~env.provision_ok \/ ~env.controller THEN << "provision" >>
    ELSE << "provision", "bind" >>

\* C12: a start() of a gadget that does not run, failed by a missing
\* configfs, a provisioning write, a missing controller, the write of the
\* bind or the exhausted discovery, returns False and leaves the gadget not
\* running; before the discovery it makes the steps up to the failing one
\* and no later one (no bind is written without a controller, no node is
\* opened).  write_video_frame and write_audio_sample on a gadget that does
\* not run return False and write nothing.
C12_StartFails ==
    [][ /\ ( /\ last'.op = "gadget_start"
             /\ euid = 0
             /\ ~gadget.running
             /\ steps' # << "provision", "bind", "discover" >> ) =>
                /\ \E f \in DOMAIN last'.env : ~last'.env[f]
                /\ last'.result = FALSE
                /\ steps' = StepsUpTo(last'.env)
                /\ ~gadget'.running
                /\ gadget_pc' = "idle"
                /\ gadget'.video_device = gadget.video_device
                /\ gadget'.audio_device = gadget.audio_device
                /\ UNCHANGED dangling
        /\ ( /\ last'.op = "gadget_start"
             /\ ~gadget.running
             /\ last'.failed \in {"discovery", "no_video"} ) =>
                /\ last'.result = FALSE
                /\ ~gadget'.running
                /\ gadget_pc' = "idle"
                /\ last'.failed = "discovery" => retry' = max_retries
        /\ ( /\ last'.op \in {"write_video_frame", "write_audio_sample"}
             /\ ~gadget.running ) =>
                /\ last'.result = FALSE
                /\ ~last'.wrote ]_vars

\* start() failed for want of a controller, after the provisioning and
\* without a bind; a write to the gadget then returned False.
C12_Witness ==
    /\ last.op = "write_video_frame"
    /\ ~last.result
    /\ steps = << "provision" >>
    /\ gadget.gadget_configured
    /\ UDC = ""
    /\ ~gadget.running

\* C13: in every state of the lifecycle at most one handle of each kind is
\* open: no handle is open that the gadget dropped when it opened another
\* node of the kind.
C13_OneHandlePerKind ==
    /\ ~(dangling.video /\ gadget.video_device # None)
    /\ ~(dangling.audio /\ gadget.audio_device # None)

\* C14: when the discovery of start() has finished, with success or
\* without, the gadget does not hold a handle to a video node that does not
\* report its name.
C14_NoOtherNodeRetained ==
    DiscoveryFinished => gadget.video_device # "other"

\* C15: after a start() that returned True, of root or without privilege,
\* the video handle of the gadget refers to a node of the gadget's name.
C15_RunningOnMatchedNode ==
    (last.op = "gadget_start" /\ last.result) => gadget.video_device = "uvc"

\* C16: when a discovery of start() succeeds at a pass in which exactly one
\* video candidate k reports the gadget's name, the handle the gadget holds
\* is the one opened on k, whatever the candidates before k report.
C16_OnlyMatchRetained ==
    (DiscoveryFinished /\ last.result /\ Cardinality(last.matching) = 1) =>
        /\ last.node \in last.matching
        /\ gadget.video_device = "uvc"

\* The discovery succeeded on the last candidate alone, after it had opened
\* and dropped a candidate before it.
C16_Witness ==
    /\ DiscoveryFinished
    /\ last.result
    /\ last.matching = {MaxVideoNodes - 1}
    /\ last.node = MaxVideoNodes - 1
    /\ retry = 0
    /\ dangling.video

\* C17: _open_devices makes at most max_retries passes.  It sleeps after a
\* pass only if the pass did not meet every required node and passes are
\* left; start() returns True at the first pass that meets them all, and
\* after max_retries passes without one it returns False.
C17_DiscoveryTerminates ==
    /\ retry <= max_retries
    /\ gadget_pc = "sleep" => retry \in 1..(max_retries - 1)
    /\ last.op = "_open_devices" => ~last.required /\ gadget_pc = "sleep"
    /\ DiscoveryFinished =>
          /\ gadget_pc = "idle"
          /\ last.result = last.required
          /\ last.result => retry < max_retries
          /\ ~last.result => retry = max_retries /\ last.failed = "discovery"

\* start() returned False after max_retries passes of the discovery.
C17_Witness ==
    /\ DiscoveryFinished
    /\ ~last.result
    /\ retry = max_retries
    /\ gadget_pc = "idle"
    /\ ~gadget.running

\* C18: without privilege a start() of a gadget that does not run writes no
\* provisioning and no bind, it only attaches to nodes that exist; it
\* returns True, and the gadget runs, iff a video node opens, whether a pcm
\* node is there or not.  A stop() without privilege writes no unbind.
C18_PrivilegeFallback ==
    [][ /\ (last'.op = "gadget_start" /\ euid # 0 /\ ~gadget.running) =>
              /\ steps' = << "attach" >>
              /\ UNCHANGED UDC
              /\ gadget'.gadget_configured = gadget.gadget_configured
              /\ last'.result = last'.video_nodes
              /\ gadget'.running = last'.result
              /\ gadget_pc' = "idle"
        /\ (last'.op = "gadget_stop" /\ euid # 0) =>
              /\ ~last'.unbound
              /\ \A i \in DOMAIN steps' : steps'[i] # "unbind"
              /\ UNCHANGED UDC ]_vars

\* Without privilege start() returned True on a video node, no pcm node
\* being there.
C18_Witness ==
    /\ last.op = "gadget_start"
    /\ euid # 0
    /\ last.result
    /\ ~last.audio_nodes
    /\ gadget.running
    /\ gadget.audio_device = None
    /\ steps = << "attach" >>

\* The closes stop() makes on the gadget g when no close() raises.
Closes(g) ==
    (IF g.video_device # None THEN << "close_video" >> ELSE << >>)
        \o (IF g.audio_device # None THEN << "close_audio" >> ELSE << >>)

\* C19: stop() closes the handles the gadget holds first and writes the
\* unbind after them, and only when the gadget was configured by this
\* object and the process is root; where one of the two is missing, stop()
\* writes no unbind.  When no close() raises, stop() closes every handle the
\* gadget holds and writes the unbind iff both hold.
C19_CloseThenUnbind ==
    [][ last'.op = "gadget_stop" =>
          LET unbind_written == \E i \in DOMAIN steps' : steps'[i] = "unbind"
          IN /\ unbind_written =>
                   /\ gadget.gadget_configured /\ euid = 0
                   /\ steps' = Closes(gadget) \o << "unbind" >>
                   /\ gadget'.video_device = None
                   /\ gadget'.audio_device = None
             /\ ~(gadget.gadget_configured /\ euid = 0) =>
                   ~unbind_written /\ UNCHANGED UDC
             /\ last'.result =>
                   /\ gadget'.video_device = None
                   /\ gadget'.audio_device = None
                   /\ ~gadget'.running
                   /\ unbind_written = (gadget.gadget_configured /\ euid = 0) ]_vars

\* stop() of a running gadget of root closed both handles and unbound it.
C19_Witness ==
    /\ last.op = "gadget_stop"
    /\ last.unbound
    /\ steps = << "close_video", "close_audio", "unbind" >>
    /\ UDC = ""
    /\ gadget.video_device = None
    /\ ~gadget.running

\* C20: in WebRTCamApp.stop(), MediaPipeline.stop() and USBGadget.stop()
\* return and raise nothing, in every state and also when a close() of a
\* device handle or the write of the unbind fails: MediaPipeline.stop() waits
\* only for a task it has cancelled, and once it has returned USBGadget.stop()
\* returns True or False.
C20_ShutdownNeverRaises ==
    /\ stop_pc = "await_video_task" => video_task \in {"cancelling", "cancelled"}
    /\ stop_pc = "await_audio_task" => audio_task \in {"cancelling", "cancelled"}
    /\ last.op = "app_stop" =>
          IF last.result = "returned"
          THEN /\ ~last.raised
               /\ last.gadget_result \in BOOLEAN
               /\ stop_pc = "idle"
               /\ ~running
               /\ app = "stopped"
          ELSE stop_pc # "idle" /\ app = "stopping"

\* The application stopped: MediaPipeline.stop() returned after the task it
\* cancelled, and USBGadget.stop() returned False, the close() of the video
\* handle having failed.
C20_Witness ==
    /\ last.op = "app_stop"
    /\ last.result = "returned"
    /\ ~last.gadget_result
    /\ gadget.video_device # None
    /\ gadget.running
    /\ video_task = "cancelled"
    /\ app = "stopped"

\* C21: when a write to a device node fails in a pass of a conversion task,
\* the write call returns False and no exception leaves it, the gadget keeps
\* its lifecycle state and its handles, the pipeline keeps running and the
\* task stays alive; the next pass of the task on a queue that is not empty
\* takes the oldest sample of it.
C21_WriteFailureContained ==
    [][ /\ ( /\ last'.op \in {"_process_video", "_process_audio"}
             /\ last'.did = "popleft"
             /\ last'.wrote /\ last'.write_failed ) =>
                /\ ~last'.write_raised
                /\ UNCHANGED << gadget, UDC, running, usb_gadget >>
                /\ UNCHANGED << video_task, audio_task, video_unreferenced,
                                audio_unreferenced >>
        /\ ( /\ last.op = "_process_video" /\ last.did = "popleft"
             /\ last.wrote /\ last.write_failed
             /\ last'.op = "_process_video"
             /\ running /\ video_task = "pending"
             /\ video_frame_queue # << >> ) =>
                /\ last'.did = "popleft"
                /\ video_taken' = Head(video_frame_queue)
                /\ video_frame_queue' = Tail(video_frame_queue)
        /\ ( /\ last.op = "_process_audio" /\ last.did = "popleft"
             /\ last.wrote /\ last.write_failed
             /\ last'.op = "_process_audio"
             /\ running /\ audio_task = "pending"
             /\ audio_sample_queue # << >> ) =>
                /\ last'.did = "popleft"
                /\ audio_taken' = Head(audio_sample_queue)
                /\ audio_sample_queue' = Tail(audio_sample_queue) ]_vars

\* The write of the first video frame to the device node has failed; the
\* gadget runs with its handle, the task is alive and the next frame waits.
C21_Witness ==
    /\ last.op = "_process_video"
    /\ last.did = "popleft"
    /\ last.wrote /\ last.write_failed
    /\ video_taken = 1
    /\ video_frame_queue # << >>
    /\ video_task = "pending"
    /\ gadget.running
    /\ gadget.video_device = "uvc"

\* A step is the arrival of a video frame that the queue accepts.
VideoAccepted == VideoArrival /\ Len(video_frame_queue) < PIPELINE_BUFFER_SIZE

C23_ClearAfterTasksEnd ==
    (last.op = "stop" /\ last.result = "returned") =>
        /\ live_tasks(video_task, video_unreferenced) = 0
        /\ live_tasks(audio_task, audio_unreferenced) = 0

\* C24: in the shutdown of the application the handles of the gadget are
\* closed by usb_gadget.stop() only: only in the step in which
\* media_pipeline.stop() has returned, when no conversion task is alive; and
\* no conversion task runs once the application is stopped, so none writes
\* to a handle that was closed.
C24_HandlesClosedAfterWriters ==
    [][ /\ (app \in {"started", "stopping"} /\ gadget' # gadget) =>
              /\ last'.op = "app_stop"
              /\ app' = "stopped"
              /\ stop_pc' = "idle"
              /\ live_tasks(video_task', video_unreferenced') = 0
              /\ live_tasks(audio_task', audio_unreferenced') = 0
        /\ app = "stopped" =>
              /\ last'.op \notin {"_process_video", "_process_audio"}
              /\ live_tasks(video_task, video_unreferenced) = 0
              /\ live_tasks(audio_task, audio_unreferenced) = 0 ]_vars

\* The application stopped: both tasks were cancelled and ended, then the
\* gadget closed its two handles.
C24_Witness ==
    /\ app = "stopped"
    /\ last.op = "app_stop"
    /\ video_task = "cancelled"
    /\ audio_task = "cancelled"
    /\ last.steps = << "close_video", "close_audio", "unbind" >>
    /\ gadget.video_device = None
    /\ gadget.audio_device = None

\* C25: the closure on_frame of a kind changes the queue and the stats of
\* the kind only while no call of add_*_track or remove_*_track of the kind
\* is inside its with block: after a step of on_frame the lock of the kind
\* is free.
C25_ArrivalExcludesAttach ==
    /\ last.op = "video_on_frame" => video_track_lock = Free
    /\ last.op = "audio_on_frame" => audio_track_lock = Free

\* C26: a pass of a conversion task in which the conversion or the encoding
\* fails removes the sample it took, the oldest, from the queue, writes
\* nothing and leaves the task alive and the pipeline running; no step puts
\* a sample that was taken back into a queue; and the next pass of the task
\* on a queue that is not empty takes the oldest sample of it, a later one.
C26_FailedSampleSkipped ==
    [][ /\ ( /\ last'.op = "_process_video" /\ last'.did = "popleft"
             /\ ~last'.ok ) =>
                /\ video_taken' = Head(video_frame_queue)
                /\ video_frame_queue' = Tail(video_frame_queue)
                /\ last'.written = 0
                /\ UNCHANGED << running, video_task, video_unreferenced, video_stats >>
        /\ ( /\ last'.op = "_process_audio" /\ last'.did = "popleft"
             /\ ~last'.ok ) =>
                /\ audio_taken' = Head(audio_sample_queue)
                /\ audio_sample_queue' = Tail(audio_sample_queue)
                /\ last'.written = 0
                /\ UNCHANGED << running, audio_task, audio_unreferenced, audio_stats >>
        /\ \A x \in Samples(video_frame_queue') : x > video_taken'
        /\ \A x \in Samples(audio_sample_queue') : x > audio_taken'
        /\ ( /\ last.op = "_process_video" /\ last.did = "popleft" /\ ~last.ok
             /\ last'.op = "_process_video"
             /\ running /\ video_task = "pending"
             /\ video_frame_queue # << >> ) =>
                /\ last'.did = "popleft"
                /\ video_taken' = Head(video_frame_queue)
                /\ video_taken' > video_taken
        /\ ( /\ last.op = "_process_audio" /\ last.did = "popleft" /\ ~last.ok
             /\ last'.op = "_process_audio"
             /\ running /\ audio_task = "pending"
             /\ audio_sample_queue # << >> ) =>
                /\ last'.did = "popleft"
                /\ audio_taken' = Head(audio_sample_queue)
                /\ audio_taken' > audio_taken ]_vars

\* The conversion of the first audio sample has failed: the sample is gone,
\* the task is alive, the pipeline runs and the second sample waits.
C26_Witness ==
    /\ last.op = "_process_audio"
    /\ last.did = "popleft"
    /\ ~last.ok
    /\ audio_taken = 1
    /\ audio_sample_queue # << >>
    /\ Head(audio_sample_queue) = 2
    /\ audio_task = "pending"
    /\ running

\* C27: a sample leaves a queue through a pass of the conversion task of
\* its kind only, made in a state in which the pipeline runs, the queue is
\* not empty and a sink is attached.  A pass made while the pipeline runs
\* and the queue is empty or no sink is attached changes neither the queue
\* nor the stats nor the task: the task sleeps and tries again.
C27_DequeueGuard ==
    [][ /\ (video_taken' # video_taken \/ Len(video_frame_queue') < Len(video_frame_queue)) =>
              \/ /\ last'.op = "_process_video" /\ last'.did = "popleft"
                 /\ running
                 /\ video_frame_queue # << >>
                 /\ usb_gadget # None
              \/ /\ last'.op = "stop" /\ video_taken' = video_taken
        /\ (audio_taken' # audio_taken \/ Len(audio_sample_queue') < Len(audio_sample_queue)) =>
              \/ /\ last'.op = "_process_audio" /\ last'.did = "popleft"
                 /\ running
                 /\ audio_sample_queue # << >>
                 /\ usb_gadget # None
              \/ /\ last'.op = "stop" /\ audio_taken' = audio_taken
        /\ ( /\ last'.op = "_process_video"
             /\ last'.did \notin {"cancelled", "finished"}
             /\ video_frame_queue = << >> \/ usb_gadget = None ) =>
                /\ last'.did = "sleep"
                /\ UNCHANGED << video_frame_queue, video_stats, video_taken,
                                video_task, video_unreferenced, running >>
        /\ ( /\ last'.op = "_process_audio"
             /\ last'.did \notin {"cancelled", "finished"}
             /\ audio_sample_queue = << >> \/ usb_gadget = None ) =>
                /\ last'.did = "sleep"
                /\ UNCHANGED << audio_sample_queue, audio_stats, audio_taken,
                                audio_task, audio_unreferenced, running >> ]_vars

\* The video task has made a pass with a frame in the queue and no sink
\* attached: it sleeps, the frame stays.
C27_Witness ==
    /\ last = [op |-> "_process_video", did |-> "sleep"]
    /\ running
    /\ usb_gadget = None
    /\ video_frame_queue # << >>
    /\ video_taken = 0

C29_OnlyRegisteredSourceFeeds ==
    /\ last.op = "video_on_frame" => video_track = last.track
    /\ last.op = "audio_on_frame" => audio_track = last.track

\* C30: when stop() of the gadget has returned, True or False, the gadget
\* does not run and holds no video and no audio handle.
C30_StoppedGadgetHoldsNothing ==
    last.op = "gadget_stop" =>
        /\ ~gadget.running
        /\ gadget.video_device = None
        /\ gadget.audio_device = None

\* C31: when start() of the gadget has returned False, the gadget retains no
\* device handle: get_status reports video_device and audio_device false.
C31_FailedStartHoldsNothing ==
    (last.op = "gadget_start" /\ ~last.result) =>
        /\ ~USBGadget_get_status(gadget).video_device
        /\ ~USBGadget_get_status(gadget).audio_device

\* What a step does to the samples of a queue: the number the conversion
\* task of the kind dequeues in it, and the number stop() discards in it when
\* it clears the queue.
Dequeued(task) ==
    IF last'.op = task /\ last'.did = "popleft" THEN 1 ELSE 0

Discarded(queue) ==
    IF last'.op = "stop" /\ last'.result = "returned" THEN Len(queue) ELSE 0

\* C32: the samples of each kind are accounted for.  In every state the
\* calls of on_frame are as many as the samples received and dropped.  No
\* sample is received before the first step, and in every step the samples
\* received grow by the growth of the queue, plus the samples the
\* conversion task dequeues and the samples the clear of stop() discards in
\* the step: so the samples received are at any time the samples dequeued,
\* the samples discarded by stop() and those in the queue.
C32_SamplesAccounted ==
    /\ [](/\ video_arrivals = video_stats.frames_received + video_stats.frames_dropped
          /\ audio_arrivals = audio_stats.samples_received + audio_stats.samples_dropped)
    /\ video_stats.frames_received = Len(video_frame_queue)
    /\ audio_stats.samples_received = Len(audio_sample_queue)
    /\ [][/\ video_stats.frames_received' - video_stats.frames_received =
                Len(video_frame_queue') - Len(video_frame_queue)
                + Dequeued("_process_video") + Discarded(video_frame_queue)
           /\ audio_stats.samples_received' - audio_stats.samples_received =
                Len(audio_sample_queue') - Len(audio_sample_queue)
                + Dequeued("_process_audio") + Discarded(audio_sample_queue)]_vars

\* stop() has returned after a video frame was dropped and one was dequeued,
\* and its clear discarded a frame: more frames arrived than were dropped or
\* can have been dequeued.
C32_Witness ==
    /\ last.op = "stop"
    /\ last.result = "returned"
    /\ video_frame_queue = << >>
    /\ video_taken > 0
    /\ video_stats.frames_dropped > 0
    /\ video_arrivals > video_taken + video_stats.frames_dropped

\* A conversion task ends in this step because its loop test saw running
\* false.
TaskSawNotRunning ==
    /\ last'.op \in {"_process_video", "_process_audio"}
    /\ last'.did = "finished"

\* C33: a conversion task does not end on its loop test before stop() is
\* called.  A step that creates a conversion task is a step of start() and
\* leaves running true, so no task runs between its creation and the
\* assignment; running goes from true to false only in a step of stop(); and
\* a task ends on its loop test only in a state in which running is false:
\* from the creation of a task to the next call of stop() every loop test
\* sees running true.
C33_RunningUntilStop ==
    [][/\ ( \/ live_tasks(video_task', video_unreferenced')
                 > live_tasks(video_task, video_unreferenced)
            \/ live_tasks(audio_task', audio_unreferenced')
                 > live_tasks(audio_task, audio_unreferenced) )
            => (last'.op = "start" /\ running')
       /\ (running /\ ~running') => last'.op = "stop"
       /\ TaskSawNotRunning => ~running
       /\ (running /\ last'.op \in {"_process_video", "_process_audio"})
            => last'.did \in {"sleep", "popleft", "cancelled"}]_vars

\* A video task that start() created has run its loop while the pipeline
\* runs: it saw running true and went on, to sleep or to a frame.
C33_Witness ==
    /\ last.op = "_process_video"
    /\ last.did \in {"sleep", "popleft"}
    /\ running
    /\ video_task = "pending"

====
